---- MODULE Spec2Model ----
(***************************************************************************)
(* The orchestration core of the refactoring swarm: the execution graph    *)
(* (src/src/orchestration/execution_graph.py), the Orchestrator that       *)
(* drives it (src/src/orchestration/orchestrator.py) and the command-line  *)
(* loop of src/main.py, which drives the same three agents by hand.        *)
(* The three agents (auditor, fixer, judge) are collaborators: what they   *)
(* return or raise is drawn from small sets.                               *)
(***************************************************************************)
EXTENDS Integers, Sequences, FiniteSets, TLC

(* ---------------------------------------------------------------------- *)
(* Program constants and bounds                                            *)
(* ---------------------------------------------------------------------- *)

\* ExecutionGraph.MAX_ITERATIONS, and max_iterations of main()
MAX_ITERATIONS == 10

\* largest failed-test count a judge result carries
MaxFailed == 10

\* largest errored-test count a judge result carries
MaxErrors == 1

\* largest iteration_count handed to get_next_state when it is called alone
MaxIterArg == 12

\* a key that a result dictionary does not hold
Absent == "absent"

\* a count that a result dictionary does not hold
NoCount == 0 - 1

(* ---------------------------------------------------------------------- *)
(* ExecutionState and ExecutionGraph                                       *)
(* ---------------------------------------------------------------------- *)

ExecutionState ==
    {"INIT", "AUDIT", "FIX", "JUDGE", "SUCCESS", "MAX_ITERATIONS", "ERROR"}

TerminalStates == {"SUCCESS", "MAX_ITERATIONS", "ERROR"}

\* what a caller may hand to get_next_state as current_state: a member of
\* the enumeration, or any other object
StateArgs == ExecutionState \cup {"OTHER"}

\* what a caller may hand to get_next_state as judge_decision: the code
\* tests identity with True and with False, so None, 0 and 1 are neither
DecisionArgs == {"True", "False", "None", "0", "1"}

\* a mutant of get_next_state: the ceiling test is off by one
GetNextStateOffByOne(state, decision, count) ==
    IF state = "INIT" THEN "AUDIT"
    ELSE IF state = "AUDIT" THEN "FIX"
    ELSE IF state = "FIX" THEN "JUDGE"
    ELSE IF state = "JUDGE" THEN
        IF decision = "True" THEN "SUCCESS"
        ELSE IF decision = "False" THEN
            IF count <= MAX_ITERATIONS THEN "FIX" ELSE "MAX_ITERATIONS"
        ELSE "ERROR"
    ELSE "ERROR"

\* ExecutionGraph.get_next_state, with self.iteration_count as count
GetNextState(state, decision, count) ==
    IF state = "INIT" THEN "AUDIT"
    ELSE IF state = "AUDIT" THEN "FIX"
    ELSE IF state = "FIX" THEN "JUDGE"
    ELSE IF state = "JUDGE" THEN
        IF decision = "True" THEN "SUCCESS"
        ELSE IF decision = "False" THEN
            IF count < MAX_ITERATIONS THEN "FIX" ELSE "MAX_ITERATIONS"
        ELSE "ERROR"
    ELSE "ERROR"

\* a mutant of can_continue: one iteration too many
CanContinueOffByOne(count) == count <= MAX_ITERATIONS

\* ExecutionGraph.can_continue
CanContinue(count) == count < MAX_ITERATIONS

\* a mutant of increment_iteration: the counter is left as it is
IncrementIterationForgotten(count) == count

\* ExecutionGraph.increment_iteration
IncrementIteration(count) == count + 1

\* ExecutionGraph.record_step: one record appended; the result is kept by
\* reference, named here by the number of the phase call that returned it
RecordStep(hist, count, state, callno) ==
    Append(hist, [iteration |-> count, state |-> state, result |-> callno])

(* ---------------------------------------------------------------------- *)
(* What the collaborators return or raise                                  *)
(* ---------------------------------------------------------------------- *)

\* auditor.execute: a summary whose status is 'SUCCESS', a dictionary with
\* another status (or none), a falsy value, or an exception
AuditOutcomes == {"ok", "other_status", "none", "raise"}

\* fixer.execute: a dictionary (status, total_corrections), None, or an
\* exception
FixDicts ==
    [kind : {"dict"}, status : {"SUCCESS", "other"}, total_corrections : 0 .. 1]

NoFix == [kind |-> "none", status |-> Absent, total_corrections |-> NoCount]

FixRaise == [kind |-> "raise", status |-> Absent, total_corrections |-> NoCount]

FixOutcomes == FixDicts \cup {NoFix, FixRaise}

\* judge.execute as the Orchestrator sees it: any object with the keys it
\* likes; 'approved' is True, False or missing, or it is no boolean (None,
\* 0, 1), which is tried with one pair of counts
OrchJudgeDicts ==
    [kind : {"dict"}, approved : {"True", "False", Absent}, success : {Absent},
     failed : 0 .. MaxFailed, errors : 0 .. MaxErrors]
        \cup [kind : {"dict"}, approved : {"None", "0", "1"}, success : {Absent},
              failed : {0}, errors : {0}]

\* JudgeAgent.execute as main() sees it: the dictionary of
\* PytestRunner.run_tests, which has no 'approved' key
MainJudgeDicts ==
    [kind : {"dict"}, approved : {Absent}, success : {"True", "False"},
     failed : 0 .. MaxFailed, errors : 0 .. MaxErrors]

NoJudge ==
    [kind |-> "none", approved |-> Absent, success |-> Absent,
     failed |-> NoCount, errors |-> NoCount]

JudgeRaise ==
    [kind |-> "raise", approved |-> Absent, success |-> Absent,
     failed |-> NoCount, errors |-> NoCount]

\* the dictionary {'status': 'ERROR', 'message': ...} that _run_judge makes
\* up when the judge raises or returns nothing
JudgeErrorDict ==
    [kind |-> "error", approved |-> Absent, success |-> Absent,
     failed |-> NoCount, errors |-> NoCount]

(* ---------------------------------------------------------------------- *)
(* State                                                                   *)
(* ---------------------------------------------------------------------- *)

VARIABLES
    driver,          \* which program runs: Orchestrator.run or main()
    pc,              \* where the run stands
    current_state,   \* graph.current_state
    iteration_count, \* graph.iteration_count; iteration of main()
    history,         \* graph.history
    audit_result,    \* the local audit_result
    fix_result,      \* the local fix_result / fixer_result
    judge_result,    \* the local judge_result
    result,          \* what Orchestrator.run returns
    exit_code,       \* the exit code of main(), NoCount while it runs
    cause,           \* the cause main() prints when it stops
    calls,           \* every phase call made so far, in call order
    active,          \* the collaborators whose execute is running
    fixer_input,     \* what the last fixer call received
    judge_round,     \* the iteration whose JUDGE produced judge_result
    prev_failed,     \* the failed-count of the JUDGE round before the last
    decreasing,      \* every JUDGE round so far left failures, fewer each time
    raised,          \* the collaborator whose call has just raised, if any
    gs_state,        \* get_next_state called alone: current_state
    gs_decision,     \* get_next_state called alone: judge_decision
    gs_count,        \* get_next_state called alone: self.iteration_count
    gs_next,         \* get_next_state called alone: what it returned
    m_path,          \* _map_test_to_source_file called alone: test_file_path
    m_source,        \* _map_test_to_source_file called alone: what it returned
    t_result,        \* create_correction_report: the test_result it is given
    t_files,         \* create_correction_report: the files of target_dir
    t_report,        \* create_correction_report: what it returned
    max_retries,     \* execute_with_retry: the parameter max_retries
    attempt,         \* execute_with_retry: the loop variable attempt
    r_pc,            \* execute_with_retry: where the call stands
    r_outcomes,      \* execute_with_retry: what each call of execute gave
    r_end,           \* execute_with_retry: what it returned or raised
    rr_history,      \* run called again: graph.history
    rr_state,        \* run called again: graph.current_state
    rr_count,        \* run called again: graph.iteration_count
    rr_result,       \* run called again: what the last call of run returned
    rr_runs,         \* run called again: the calls of run so far
    rr_calls,        \* run called again: the phase calls so far
    rr_before,       \* run called again: the phase calls before the last run
    c_report,        \* CorrectorAgent.execute: file_results of audit_report, with what happens to each file
    c_pc,            \* CorrectorAgent.execute: where the call stands
    c_written,       \* CorrectorAgent.execute: the files it has written to disk
    c_summary,       \* CorrectorAgent.execute: what it returned
    a_files,         \* AuditorAgent.execute: files, the sorted list
    a_parallel,      \* AuditorAgent.execute: the parameter parallel
    a_content,       \* AuditorAgent.execute: what analysing each file gives
    a_test,          \* AuditorAgent.execute: what the test run gives
    a_pc,            \* AuditorAgent.execute: where the call stands
    a_results,       \* AuditorAgent.execute: audit_results, in insertion order
    a_summary        \* AuditorAgent.execute: what it returned

vars ==
    <<driver, pc, current_state, iteration_count, history, audit_result,
      fix_result, judge_result, result, exit_code, cause, calls, active,
      fixer_input, judge_round, prev_failed, decreasing, raised,
      gs_state, gs_decision, gs_count, gs_next, m_path, m_source,
      max_retries, attempt, r_pc, r_outcomes, r_end,
      rr_history, rr_state, rr_count, rr_result, rr_runs, rr_calls, rr_before,
      c_report, c_pc, c_written, c_summary,
      t_result, t_files, t_report, a_files, a_parallel, a_content, a_test,
      a_pc, a_results, a_summary>>

runVars ==
    <<driver, pc, current_state, iteration_count, history, audit_result,
      fix_result, judge_result, result, exit_code, cause, calls, active,
      fixer_input, judge_round, prev_failed, decreasing, raised>>

gsVars == <<gs_state, gs_decision, gs_count, gs_next>>

mapVars == <<m_path, m_source>>

trVars == <<t_result, t_files, t_report>>

auVars ==
    <<a_files, a_parallel, a_content, a_test, a_pc, a_results, a_summary>>

retryVars == <<max_retries, attempt, r_pc, r_outcomes, r_end>>

rerunVars == <<rr_history, rr_state, rr_count, rr_result, rr_runs, rr_calls, rr_before>>

corrVars == <<c_report, c_pc, c_written, c_summary>>

\* the variables of the functions that are called alone
aloneVars == <<gsVars, mapVars, trVars, auVars, retryVars, rerunVars, corrVars>>

NoAudit == [kind |-> "none", status |-> Absent, message |-> Absent]

NoResult ==
    [status |-> Absent, state |-> Absent, message |-> Absent,
     detail |-> Absent, iterations |-> NoCount]

NoInput == [source |-> "none", round |-> 0]

\* _map_test_to_source_file has not returned
NoSource == <<"none">>

\* no test result: no counts, no messages
NoTestResult == [failed |-> NoCount, errors |-> NoCount, messages |-> <<>>]

\* AuditorAgent.execute has not returned
NoSummary ==
    [files_audited |-> NoCount, total_issues |-> NoCount, file_results |-> <<>>,
     all_issues |-> <<>>, files_with_errors |-> NoCount, status |-> Absent]

\* create_correction_report has not returned
NoReport ==
    [file_results |-> <<>>, all_issues |-> <<>>, total_issues |-> NoCount,
     source |-> Absent]

\* the state after Orchestrator(auditor, fixer, judge), or at the start of
\* main(): a fresh ExecutionGraph, nothing called yet
InitRun ==
    /\ pc = "start"
    /\ current_state = "INIT"
    /\ iteration_count = 0
    /\ history = <<>>
    /\ audit_result = NoAudit
    /\ fix_result = NoFix
    /\ judge_result = NoJudge
    /\ result = NoResult
    /\ exit_code = NoCount
    /\ cause = Absent
    /\ calls = <<>>
    /\ active = {}
    /\ fixer_input = NoInput
    /\ judge_round = 0
    /\ prev_failed = NoCount
    /\ decreasing = TRUE
    /\ raised = Absent

InitGs ==
    /\ gs_state = "INIT"
    /\ gs_decision = "None"
    /\ gs_count = 0
    /\ gs_next = Absent

\* no path mapped yet
InitMap ==
    /\ m_path = <<>>
    /\ m_source = NoSource

\* no test result translated yet
InitTr ==
    /\ t_result = NoTestResult
    /\ t_files = {}
    /\ t_report = NoReport

\* no audit started
InitAu ==
    /\ a_files = <<>>
    /\ a_parallel = TRUE
    /\ a_content = <<>>
    /\ a_test = [kind |-> "passed", found |-> 0]
    /\ a_pc = "idle"
    /\ a_results = <<>>
    /\ a_summary = NoSummary

\* no outcome of execute, nothing returned or raised
NoOutcome == [kind |-> "none", text |-> <<>>]

\* execute_with_retry not called
InitRetry ==
    /\ max_retries = 0
    /\ attempt = 0
    /\ r_pc = "idle"
    /\ r_outcomes = <<>>
    /\ r_end = NoOutcome

\* a fresh Orchestrator, run not called yet
InitRerun ==
    /\ rr_history = <<>>
    /\ rr_state = "INIT"
    /\ rr_count = 0
    /\ rr_result = NoResult
    /\ rr_runs = 0
    /\ rr_calls = 0
    /\ rr_before = 0

\* CorrectorAgent.execute has not returned
NoCorrectionSummary ==
    [files_corrected |-> NoCount, total_corrections |-> NoCount,
     corrections |-> <<>>, status |-> Absent]

\* CorrectorAgent.execute not called
InitCorr ==
    /\ c_report = <<>>
    /\ c_pc = "idle"
    /\ c_written = {}
    /\ c_summary = NoCorrectionSummary

Init ==
    /\ driver \in {"orchestrator", "main"}
    /\ InitRun
    /\ InitCorr
    /\ InitRerun
    /\ InitRetry
    /\ InitGs
    /\ InitMap
    /\ InitTr
    /\ InitAu

(* ---------------------------------------------------------------------- *)
(* Orchestrator                                                            *)
(* ---------------------------------------------------------------------- *)

\* the dictionary an auditor returns
AuditDict(o) ==
    [kind |-> "dict",
     status |-> IF o = "ok" THEN "SUCCESS" ELSE "other",
     message |-> Absent]

\* Orchestrator._run_audit
RunAudit(o) ==
    IF o = "raise" THEN
        [kind |-> "error", status |-> "ERROR", message |-> "Audit error"]
    ELSE IF o = "none" THEN
        [kind |-> "error", status |-> "ERROR", message |-> "Auditor returned None"]
    ELSE AuditDict(o)

\* Orchestrator._run_fix
RunFix(o) ==
    IF o.kind = "raise" THEN
        [kind |-> "error", status |-> "ERROR", total_corrections |-> NoCount]
    ELSE IF o.kind = "none" THEN
        [kind |-> "error", status |-> "ERROR", total_corrections |-> NoCount]
    ELSE o

\* Orchestrator._run_judge
RunJudge(o) ==
    IF o.kind = "raise" THEN JudgeErrorDict
    ELSE IF o.kind = "none" THEN JudgeErrorDict
    ELSE o

\* a mutant of the status test: only the status 'ERROR' stops the run
PhaseFailedOnErrorOnly(r) == r.status = "ERROR"

\* audit_result.get('status') != 'SUCCESS', fix_result.get('status') !=
\* 'SUCCESS'
PhaseFailed(r) == r.status # "SUCCESS"

\* a mutant of the decision: a missing 'approved' key counts as approval
JudgeDecisionDefaultTrue(jr) == jr.approved # "False"

\* a mutant of the decision: the key is misspelt, so the default is read
JudgeDecisionWrongKey(jr) == FALSE

\* judge_result.get('approved', False), taken for its truth
JudgeDecision(jr) == jr.approved \in {"True", "1"}

\* Orchestrator._success_result
SuccessResult(count) ==
    [status |-> "SUCCESS", state |-> "SUCCESS", message |-> Absent,
     detail |-> Absent, iterations |-> count]

\* a mutant of _error_result: the state of the graph is reported
ErrorResultCurrentState(message, detail, count) ==
    [status |-> "ERROR", state |-> current_state, message |-> message,
     detail |-> detail, iterations |-> count]

\* Orchestrator._error_result
ErrorResult(message, detail, count) ==
    [status |-> "ERROR", state |-> "ERROR", message |-> message,
     detail |-> detail, iterations |-> count]

\* Orchestrator._max_iterations_result
MaxIterationsResult(count) ==
    [status |-> "MAX_ITERATIONS", state |-> "MAX_ITERATIONS", message |-> Absent,
     detail |-> Absent, iterations |-> count]

\* one more phase call in the log
Called(agent, count) == Append(calls, [agent |-> agent, iteration |-> count])

\* what the JUDGE rounds so far say about progress, after one more result
StillDecreasing(old, new) ==
    /\ decreasing
    /\ new.kind = "dict"
    /\ new.failed > 0
    /\ (old.failed = NoCount \/ new.failed < old.failed)

\* Orchestrator.run up to the call of the auditor
OrchStart ==
    /\ driver = "orchestrator"
    /\ pc = "start"
    /\ current_state' = "AUDIT"
    /\ iteration_count' = 0
    /\ raised' = Absent
    /\ calls' = Called("auditor", 0)
    /\ active' = active \cup {"auditor"}
    /\ pc' = "audit"
    /\ UNCHANGED <<driver, history, audit_result, fix_result, judge_result,
                   result, exit_code, cause, fixer_input, judge_round,
                   prev_failed, decreasing>>
    /\ UNCHANGED aloneVars

\* the auditor returns or raises; the audit is checked and recorded
OrchAuditReturn ==
    /\ driver = "orchestrator"
    /\ pc = "audit"
    /\ \E o \in AuditOutcomes :
        LET ar == RunAudit(o) IN
        /\ audit_result' = ar
        /\ raised' = IF o = "raise" THEN "auditor" ELSE Absent
        /\ active' = active \ {"auditor"}
        /\ IF PhaseFailed(ar)
           THEN /\ result' = ErrorResult("Audit failed", ar.message, iteration_count)
                /\ pc' = "done"
                /\ UNCHANGED history
           ELSE /\ history' = RecordStep(history, iteration_count, "AUDIT", Len(calls))
                /\ pc' = "loop"
                /\ UNCHANGED result
    /\ UNCHANGED <<driver, current_state, iteration_count, fix_result,
                   judge_result, exit_code, cause, calls, fixer_input,
                   judge_round, prev_failed, decreasing>>
    /\ UNCHANGED aloneVars

\* the head of the while loop, and the call of the fixer
OrchFixCall ==
    /\ driver = "orchestrator"
    /\ pc = "loop"
    /\ raised' = Absent
    /\ IF CanContinue(iteration_count)
       THEN /\ iteration_count' = IncrementIteration(iteration_count)
            /\ current_state' = "FIX"
            /\ fixer_input' = [source |-> "audit", round |-> 0]
            /\ calls' = Called("fixer", iteration_count')
            /\ active' = active \cup {"fixer"}
            /\ pc' = "fix"
            /\ UNCHANGED result
       ELSE /\ current_state' = "MAX_ITERATIONS"
            /\ result' = MaxIterationsResult(iteration_count)
            /\ pc' = "done"
            /\ UNCHANGED <<iteration_count, fixer_input, calls, active>>
    /\ UNCHANGED <<driver, history, audit_result, fix_result, judge_result,
                   exit_code, cause, judge_round, prev_failed, decreasing>>
    /\ UNCHANGED aloneVars

\* the fixer returns or raises; the fix is checked and recorded, and the
\* judge is called
OrchFixReturn ==
    /\ driver = "orchestrator"
    /\ pc = "fix"
    /\ \E o \in FixOutcomes :
        LET fr == RunFix(o) IN
        /\ fix_result' = fr
        /\ raised' = IF o.kind = "raise" THEN "fixer" ELSE Absent
        /\ IF PhaseFailed(fr)
           THEN /\ result' = ErrorResult("Fix failed", "Fix error", iteration_count)
                /\ active' = active \ {"fixer"}
                /\ pc' = "done"
                /\ UNCHANGED <<history, current_state, calls>>
           ELSE /\ history' = RecordStep(history, iteration_count, "FIX", Len(calls))
                /\ current_state' = "JUDGE"
                /\ calls' = Called("judge", iteration_count)
                /\ active' = (active \ {"fixer"}) \cup {"judge"}
                /\ pc' = "judge"
                /\ UNCHANGED result
    /\ UNCHANGED <<driver, iteration_count, audit_result, judge_result,
                   exit_code, cause, fixer_input, judge_round, prev_failed,
                   decreasing>>
    /\ UNCHANGED aloneVars

\* the judge returns or raises; its result is recorded and decides
OrchJudgeReturn ==
    /\ driver = "orchestrator"
    /\ pc = "judge"
    /\ \E o \in OrchJudgeDicts \cup {NoJudge, JudgeRaise} :
        LET jr == RunJudge(o) IN
        /\ judge_result' = jr
        /\ raised' = IF o.kind = "raise" THEN "judge" ELSE Absent
        /\ judge_round' = iteration_count
        /\ prev_failed' = judge_result.failed
        /\ decreasing' = StillDecreasing(judge_result, jr)
        /\ active' = active \ {"judge"}
        /\ history' = RecordStep(history, iteration_count, "JUDGE", Len(calls))
        /\ IF JudgeDecision(jr)
           THEN /\ current_state' = "SUCCESS"
                /\ result' = SuccessResult(iteration_count)
                /\ pc' = "done"
           ELSE IF ~CanContinue(iteration_count)
           THEN /\ current_state' = "MAX_ITERATIONS"
                /\ result' = MaxIterationsResult(iteration_count)
                /\ pc' = "done"
           ELSE /\ pc' = "loop"
                /\ UNCHANGED <<current_state, result>>
    /\ UNCHANGED <<driver, iteration_count, audit_result, fix_result,
                   exit_code, cause, calls, fixer_input>>
    /\ UNCHANGED aloneVars

(* ---------------------------------------------------------------------- *)
(* main()                                                                  *)
(* ---------------------------------------------------------------------- *)

\* a mutant of the loop test of main(): one iteration too many
MainCanLoopOffByOne(count) == count <= MAX_ITERATIONS

\* iteration < max_iterations, the loop test and the retry test of main()
MainCanLoop(count) == count < MAX_ITERATIONS

\* a mutant of the success test of main(): the failed-count alone decides
MainAcceptedNoFailedTest(jr) == jr.failed = 0

\* a mutant of the success test of main(): the success flag alone decides
MainAcceptedFlagOnly(jr) == jr.success = "True"

\* judge_result.get('success', False) and failed == 0
MainAccepted(jr) == jr.success = "True" /\ jr.failed = 0

\* build_fixer_input_from_judge: the report made of the messages of the
\* judge result it is given, which is the result of JUDGE round `round`
BuildFixerInputFromJudge(jr, round) == [source |-> "judge", round |-> round]

\* a mutant of the except clause of main(): the error is printed and the
\* process exits with 0
MainFatalExitZero ==
    /\ exit_code' = 0
    /\ cause' = "FATAL ERROR"
    /\ active' = {}
    /\ pc' = "done"

\* the except clause of main(): FATAL ERROR, exit code 1
MainFatal ==
    /\ exit_code' = 1
    /\ cause' = "FATAL ERROR"
    /\ active' = {}
    /\ pc' = "done"

\* parse_arguments: what the command line holds. argparse returns the
\* arguments when --target_dir is given, prints the help and exits with 0
\* on -h, and prints the usage and exits with 2 otherwise
ArgvOutcomes == {"target_dir", "help", "usage"}

\* the exit code of the SystemExit that argparse raises, which no except
\* clause of main() catches
ParseExitCode(argv) == IF argv = "help" THEN 0 ELSE 2

\* main() up to the validation of the target directory
MainPreflight ==
    /\ driver = "main"
    /\ pc = "start"
    /\ raised' = Absent
    /\ \E argv \in ArgvOutcomes, valid \in BOOLEAN :
        IF argv # "target_dir"
        THEN /\ exit_code' = ParseExitCode(argv)
             /\ cause' = IF argv = "help" THEN "HELP" ELSE "USAGE"
             /\ pc' = "done"
        ELSE IF valid
        THEN /\ pc' = "ready"
             /\ UNCHANGED <<exit_code, cause>>
        ELSE /\ exit_code' = 1
             /\ cause' = "INVALID TARGET"
             /\ pc' = "done"
    /\ UNCHANGED <<driver, current_state, iteration_count, history,
                   audit_result, fix_result, judge_result, result, calls,
                   active, fixer_input, judge_round, prev_failed, decreasing>>
    /\ UNCHANGED aloneVars

\* PHASE 1: the auditor is called
MainAuditCall ==
    /\ driver = "main"
    /\ pc = "ready"
    /\ raised' = Absent
    /\ calls' = Called("auditor", 0)
    /\ active' = active \cup {"auditor"}
    /\ pc' = "audit"
    /\ UNCHANGED <<driver, current_state, iteration_count, history,
                   audit_result, fix_result, judge_result, result, exit_code,
                   cause, fixer_input, judge_round, prev_failed, decreasing>>
    /\ UNCHANGED aloneVars

\* the auditor returns or raises; the summary is printed, the tests are
\* generated if missing, the fixer and the judge are constructed
MainAuditReturn ==
    /\ driver = "main"
    /\ pc = "audit"
    /\ \E o \in AuditOutcomes, setup \in {"ok", "raise"} :
        IF o \in {"raise", "none"}
        THEN /\ MainFatal
             /\ raised' = IF o = "raise" THEN "auditor" ELSE Absent
             /\ UNCHANGED <<audit_result, iteration_count>>
        ELSE /\ audit_result' = AuditDict(o)
             /\ raised' = Absent
             /\ IF setup = "raise"
                THEN /\ MainFatal
                     /\ UNCHANGED iteration_count
                ELSE /\ iteration_count' = 0
                     /\ active' = active \ {"auditor"}
                     /\ pc' = "loop"
                     /\ UNCHANGED <<exit_code, cause>>
    /\ UNCHANGED <<driver, current_state, history, fix_result, judge_result,
                   result, calls, fixer_input, judge_round, prev_failed,
                   decreasing>>
    /\ UNCHANGED aloneVars

\* the head of the while loop, the choice of the fixer's input and the call
\* of the fixer
MainFixCall ==
    /\ driver = "main"
    /\ pc = "loop"
    /\ raised' = Absent
    /\ IF MainCanLoop(iteration_count)
       THEN /\ iteration_count' = iteration_count + 1
            /\ \E built \in {"ok", "raise"} :
                IF iteration_count + 1 = 1
                THEN /\ fixer_input' = [source |-> "audit", round |-> 0]
                     /\ calls' = Called("fixer", iteration_count + 1)
                     /\ active' = active \cup {"fixer"}
                     /\ pc' = "fix"
                     /\ UNCHANGED <<exit_code, cause>>
                ELSE IF built = "raise"
                THEN /\ MainFatal
                     /\ UNCHANGED <<fixer_input, calls>>
                ELSE /\ fixer_input' = BuildFixerInputFromJudge(judge_result, judge_round)
                     /\ calls' = Called("fixer", iteration_count + 1)
                     /\ active' = active \cup {"fixer"}
                     /\ pc' = "fix"
                     /\ UNCHANGED <<exit_code, cause>>
       ELSE /\ exit_code' = 1
            /\ cause' = "MISSION FAILED"
            /\ pc' = "done"
            /\ UNCHANGED <<iteration_count, fixer_input, calls, active>>
    /\ UNCHANGED <<driver, current_state, history, audit_result, fix_result,
                   judge_result, result, judge_round, prev_failed, decreasing>>
    /\ UNCHANGED aloneVars

\* the fixer returns or raises; its counter is printed and the judge is
\* called
MainFixReturn ==
    /\ driver = "main"
    /\ pc = "fix"
    /\ \E o \in FixOutcomes :
        /\ raised' = IF o.kind = "raise" THEN "fixer" ELSE Absent
        /\ IF o.kind # "dict"
           THEN /\ MainFatal
                /\ UNCHANGED <<fix_result, calls>>
           ELSE /\ fix_result' = o
                /\ calls' = Called("judge", iteration_count)
                /\ active' = (active \ {"fixer"}) \cup {"judge"}
                /\ pc' = "judge"
                /\ UNCHANGED <<exit_code, cause>>
    /\ UNCHANGED <<driver, current_state, iteration_count, history,
                   audit_result, judge_result, result, fixer_input,
                   judge_round, prev_failed, decreasing>>
    /\ UNCHANGED aloneVars

\* the judge returns or raises; its result decides
MainJudgeReturn ==
    /\ driver = "main"
    /\ pc = "judge"
    /\ \E o \in MainJudgeDicts \cup {JudgeRaise} :
        /\ raised' = IF o.kind = "raise" THEN "judge" ELSE Absent
        /\ IF o.kind # "dict"
           THEN /\ MainFatal
                /\ UNCHANGED <<judge_result, judge_round, prev_failed, decreasing>>
           ELSE /\ judge_result' = o
                /\ judge_round' = iteration_count
                /\ prev_failed' = judge_result.failed
                /\ decreasing' = StillDecreasing(judge_result, o)
                /\ active' = active \ {"judge"}
                /\ IF MainAccepted(o)
                   THEN /\ exit_code' = 0
                        /\ cause' = "MISSION COMPLETE"
                        /\ pc' = "done"
                   ELSE IF MainCanLoop(iteration_count)
                   THEN /\ pc' = "loop"
                        /\ UNCHANGED <<exit_code, cause>>
                   ELSE /\ exit_code' = 1
                        /\ cause' = "MISSION FAILED"
                        /\ pc' = "done"
    /\ UNCHANGED <<driver, current_state, iteration_count, history,
                   audit_result, fix_result, result, calls, fixer_input>>
    /\ UNCHANGED aloneVars

(* ---------------------------------------------------------------------- *)
(* The run                                                                 *)
(* ---------------------------------------------------------------------- *)

Next ==
    \/ OrchStart
    \/ OrchAuditReturn
    \/ OrchFixCall
    \/ OrchFixReturn
    \/ OrchJudgeReturn
    \/ MainPreflight
    \/ MainAuditCall
    \/ MainAuditReturn
    \/ MainFixCall
    \/ MainFixReturn
    \/ MainJudgeReturn

Spec == Init /\ [][Next]_vars

\* the phase loop is one sequential thread: a collaborator that is called
\* returns or raises, and the step after it is taken
FairSpec == Spec /\ WF_vars(Next)

(* ---------------------------------------------------------------------- *)
(* get_next_state called alone, as the tests of the graph call it          *)
(* ---------------------------------------------------------------------- *)

GraphInit ==
    /\ driver = "orchestrator"
    /\ InitRun
    /\ InitCorr
    /\ InitRerun
    /\ InitRetry
    /\ gs_state \in StateArgs
    /\ gs_decision \in DecisionArgs
    /\ gs_count \in 0 .. MaxIterArg
    /\ gs_next = Absent
    /\ InitMap
    /\ InitTr
    /\ InitAu

\* graph.iteration_count = count; graph.get_next_state(state, decision)
GraphCall ==
    /\ gs_next = Absent
    /\ gs_next' = GetNextState(gs_state, gs_decision, gs_count)
    /\ UNCHANGED <<gs_state, gs_decision, gs_count>>
    /\ UNCHANGED <<runVars, mapVars, trVars, auVars, retryVars, rerunVars,
                   corrVars>>

GraphNext == GraphCall

GraphSpec == GraphInit /\ [][GraphNext]_vars

(* ---------------------------------------------------------------------- *)
(* JudgeAgent._map_test_to_source_file                                     *)
(* ---------------------------------------------------------------------- *)

\* most pieces a file name is made of
MaxTokens == 3

\* most directories in front of a file name
MaxDirs == 1

\* the pieces of file names: the prefix "test_" (five characters), a stem,
\* the suffix "_test" and the extension
NameTokens == {"test_", "calc", "_test", ".py"}

\* file names: one piece or more, concatenated
FileNames == UNION {[1 .. k -> NameTokens] : k \in 1 .. MaxTokens}

\* directory names, one of them with a hyphen
DirNames == {<<"tests">>, <<"my-tests">>}

\* a path is its components, the file name last: "tests/test_calc.py" is
\* <<<<"tests">>, <<"test_", "calc", ".py">>>>
TestPaths ==
    {dirs \o <<name>> :
        dirs \in UNION {[1 .. d -> DirNames] : d \in 0 .. MaxDirs},
        name \in FileNames}

\* Path(test_file_path).name
PathName(path) == path[Len(path)]

\* test_filename.startswith("test_")
StartsWithTestPrefix(name) == Len(name) > 0 /\ name[1] = "test_"

RECURSIVE StripAllTestPrefixes(_)
\* test_filename with every leading "test_" removed
StripAllTestPrefixes(name) ==
    IF StartsWithTestPrefix(name) THEN StripAllTestPrefixes(Tail(name))
    ELSE name

\* a mutant of _map_test_to_source_file: every leading "test_" is removed
MapTestToSourceFileStripAll(path) == StripAllTestPrefixes(PathName(path))

\* JudgeAgent._map_test_to_source_file; test_filename[5:] drops the five
\* characters of the prefix
MapTestToSourceFile(path) ==
    IF StartsWithTestPrefix(PathName(path))
    THEN Tail(PathName(path))
    ELSE PathName(path)

MapInit ==
    /\ driver = "orchestrator"
    /\ InitRun
    /\ InitCorr
    /\ InitRerun
    /\ InitRetry
    /\ InitGs
    /\ InitTr
    /\ InitAu
    /\ m_path \in TestPaths
    /\ m_source = NoSource

\* judge._map_test_to_source_file(test_file_path)
MapCall ==
    /\ m_source = NoSource
    /\ m_source' = MapTestToSourceFile(m_path)
    /\ UNCHANGED m_path
    /\ UNCHANGED <<runVars, gsVars, trVars, auVars, retryVars, rerunVars,
                   corrVars>>

MapNext == MapCall

MapSpec == MapInit /\ [][MapNext]_vars

(* ---------------------------------------------------------------------- *)
(* The output of pytest, as JudgeAgent.create_correction_report reads it   *)
(* ---------------------------------------------------------------------- *)

\* what follows the test in a line: nothing, "assert <a> == <b>",
\* "AssertionError: <a>", or "<kind>: <a>" for the four exceptions that
\* error_pattern knows
NoTail == [kind |-> "none", a |-> Absent, b |-> Absent]

AssertTail(left, right) == [kind |-> "assert", a |-> left, b |-> right]

AssertionErrorTail(msg) == [kind |-> "AssertionError", a |-> msg, b |-> Absent]

ExceptionTail(type, msg) == [kind |-> type, a |-> msg, b |-> Absent]

\* the alternatives of error_pattern
ErrorTypes == {"TypeError", "AttributeError", "NameError", "KeyError"}

\* a line of the short test summary: "FAILED <path>::<test> - <tail>"
SummaryLine(path, test, tail) ==
    [kind |-> "summary", path |-> path, test |-> test, verdict |-> "FAILED",
     tail |-> tail]

\* a line of the verbose progress: "<path>::<test> FAILED [ 50%]", or PASSED
ProgressLine(path, test, verdict) ==
    [kind |-> "progress", path |-> path, test |-> test, verdict |-> verdict,
     tail |-> NoTail]

\* a line of a traceback: "E   <tail>"
DetailLine(tail) ==
    [kind |-> "detail", path |-> <<>>, test |-> Absent, verdict |-> Absent,
     tail |-> tail]

\* a separator: "========== 1 failed in 0.05s =========="
RuleLine ==
    [kind |-> "rule", path |-> <<>>, test |-> Absent, verdict |-> Absent,
     tail |-> NoTail]

CalcTestPy == <<<<"calc", "_test", ".py">>>>

TestCalcPy == <<<<"test_", "calc", ".py">>>>

TestsTestCalcPy == <<<<"tests">>, <<"test_", "calc", ".py">>>>

MyTestsTestCalcPy == <<<<"my-tests">>, <<"test_", "calc", ".py">>>>

\* the lines the messages of a test result are drawn from
OutputLines ==
    {SummaryLine(CalcTestPy, "test_add", AssertTail("-1", "5")),
     SummaryLine(CalcTestPy, "test_mul", AssertTail("5", "6")),
     SummaryLine(TestCalcPy, "test_add", NoTail),
     SummaryLine(TestsTestCalcPy, "test_add", ExceptionTail("TypeError", "bad")),
     SummaryLine(MyTestsTestCalcPy, "test_mul", AssertionErrorTail("boom")),
     ProgressLine(TestCalcPy, "test_add", "FAILED"),
     ProgressLine(TestCalcPy, "test_mul", "PASSED"),
     DetailLine(AssertTail("-1", "5")),
     DetailLine(AssertionErrorTail("boom")),
     DetailLine(ExceptionTail("TypeError", "bad")),
     RuleLine}

\* most lines in the messages of a test result
MaxLines == 3

\* largest failed count and largest errors count of a translated result
MaxReported == 1

\* the test results handed to create_correction_report: the counts (or no
\* key 'failed') and the lines of the output
TestResults ==
    [failed : {NoCount} \cup (0 .. MaxReported),
     errors : 0 .. MaxReported,
     messages : UNION {[1 .. n -> OutputLines] : n \in 0 .. MaxLines}]

\* the file names a target directory may hold
Artifacts == {<<"calc", ".py">>}

(* ---------------------------------------------------------------------- *)
(* JudgeAgent.create_correction_report                                     *)
(* ---------------------------------------------------------------------- *)

\* test_result.get(key, 0)
GetCount(count) == IF count = NoCount THEN 0 ELSE count

\* a mutant of the first test of create_correction_report: the empty report
\* is returned only if no line of the output says FAILED either
NothingFailedNorMarked(tr) ==
    /\ GetCount(tr.failed) = 0
    /\ GetCount(tr.errors) = 0
    /\ \A i \in DOMAIN tr.messages : tr.messages[i].verdict # "FAILED"

\* the first test of create_correction_report
NothingFailed(tr) == GetCount(tr.failed) = 0 /\ GetCount(tr.errors) = 0

\* the empty report
EmptyReport ==
    [file_results |-> <<>>, all_issues |-> <<>>, total_issues |-> 0,
     source |-> "test_execution"]

\* the characters of group 1 of failure_pattern, [\w/\\\.]: every piece of
\* every component but one that holds a hyphen
InPathClass(token) == token # "my-tests"

\* group 1 of failure_pattern, ([\w/\\\.]+\.py), matches the whole path
PathMatches(path) ==
    /\ Len(path) > 0
    /\ \A c \in DOMAIN path : \A k \in DOMAIN path[c] : InPathClass(path[c][k])
    /\ Len(PathName(path)) > 0
    /\ PathName(path)[Len(PathName(path))] = ".py"

\* failure_pattern matches in this line: FAILED, white space, a path of the
\* class that ends in .py, "::" and a test
IsMarker(line) == line.kind = "summary" /\ PathMatches(line.path)

\* the line holds the name of the test
Mentions(line, test) == line.kind \in {"summary", "progress"} /\ line.test = test

\* the line holds FAILED or PASSED, the alternatives of test_section_pattern
\* that can match: in the rf-string the braces of ={10,} are a replacement
\* field, so the third alternative is the text =(10,) and no separator
\* matches it
EndsSection(line) == line.verdict \in {"FAILED", "PASSED"}

\* the least member of a non-empty set of line numbers
Least(S) == CHOOSE i \in S : \A j \in S : i <= j

NoContext == [kind |-> "none", a |-> Absent, b |-> Absent]

SeeOutputContext == [kind |-> "see_output", a |-> Absent, b |-> Absent]

\* what _extract_assertion_context makes of a section, given the tails of
\* its lines in order: the first assert, else the first AssertionError,
\* else the fixed sentence
ContextOfSection(tails) ==
    LET asserts == {i \in DOMAIN tails : tails[i].kind = "assert"}
        errors == {i \in DOMAIN tails : tails[i].kind = "AssertionError"}
    IN  IF asserts # {}
        THEN [kind |-> "expected", a |-> tails[Least(asserts)].a,
              b |-> tails[Least(asserts)].b]
        ELSE IF errors # {}
        THEN [kind |-> "message", a |-> tails[Least(errors)].a, b |-> Absent]
        ELSE SeeOutputContext

\* JudgeAgent._extract_assertion_context: the section runs from the first
\* mention of the test in the whole output to the first FAILED or PASSED
\* after it; "" if there is none
ExtractAssertionContext(output, test) ==
    LET mentions == {i \in DOMAIN output : Mentions(output[i], test)}
    IN  IF mentions = {} THEN NoContext
        ELSE
        LET first == Least(mentions)
            ends == {j \in DOMAIN output : j > first /\ EndsSection(output[j])}
        IN  IF output[first].kind = "progress"
            THEN ContextOfSection(<<>>)
            ELSE IF ends = {} THEN NoContext
            ELSE ContextOfSection(
                    [k \in 1 .. Least(ends) - first |-> output[first + k - 1].tail])

\* an issue string: "Test <test>: Expected <a> == <b> but assertion failed",
\* "Test <test>: <a>", "Test <test>: Assertion failed (see test output for
\* details)", "Test <test> failed - check logic", or "<a>: <b>"
MarkerIssue(test, context) ==
    IF context.kind = "none"
    THEN [kind |-> "check_logic", test |-> test, a |-> Absent, b |-> Absent]
    ELSE [kind |-> context.kind, test |-> test, a |-> context.a, b |-> context.b]

ExceptionIssue(tail) ==
    [kind |-> "exception", test |-> Absent, a |-> tail.kind, b |-> tail.a]

\* the entries of file_results that stand for a file
EntriesOf(file_results, file) ==
    {k \in DOMAIN file_results : file_results[k].file = file}

\* file_results with an empty entry for the file if it has none
WithEntry(file_results, file) ==
    IF EntriesOf(file_results, file) # {} THEN file_results
    ELSE Append(file_results,
                [file |-> file, issues |-> <<>>, issue_count |-> 0,
                 status |-> "error"])

\* the issue appended to the entry of the file, and counted
WithIssue(file_results, file, issue) ==
    [k \in DOMAIN WithEntry(file_results, file) |->
        IF WithEntry(file_results, file)[k].file = file
        THEN [WithEntry(file_results, file)[k] EXCEPT
                !.issues = Append(@, issue), !.issue_count = @ + 1]
        ELSE WithEntry(file_results, file)[k]]

\* the issues of the entry of a file
IssuesOf(file_results, file) ==
    IF EntriesOf(file_results, file) = {} THEN <<>>
    ELSE file_results[Least(EntriesOf(file_results, file))].issues

InSeq(x, seq) == \E i \in DOMAIN seq : seq[i] = x

RECURSIVE MarkerPass(_, _, _)
\* the first loop of create_correction_report, from line i on: every match
\* of failure_pattern appends an issue to its file and to all_issues
MarkerPass(output, i, acc) ==
    IF i > Len(output) THEN acc
    ELSE IF ~IsMarker(output[i]) THEN MarkerPass(output, i + 1, acc)
    ELSE
    LET source_file == MapTestToSourceFile(output[i].path)
        issue_desc ==
            MarkerIssue(output[i].test,
                        ExtractAssertionContext(output, output[i].test))
    IN  MarkerPass(output, i + 1,
            [file_results |-> WithIssue(acc.file_results, source_file, issue_desc),
             all_issues |-> Append(acc.all_issues, issue_desc)])

\* the last match of failure_pattern before the exception of line i: the
\* marker of the line itself, or of the nearest line before it; 0 if none
LastFailed(output, i) ==
    IF {j \in 1 .. i : IsMarker(output[j])} = {} THEN 0
    ELSE CHOOSE j \in 1 .. i :
            /\ IsMarker(output[j])
            /\ \A k \in 1 .. i : IsMarker(output[k]) => k <= j

RECURSIVE ExceptionPass(_, _, _)
\* the second loop of create_correction_report, from line i on: every match
\* of error_pattern goes to the file of the last marker before it, unless
\* that file holds the same string already
ExceptionPass(output, i, acc) ==
    IF i > Len(output) THEN acc
    ELSE IF output[i].tail.kind \notin ErrorTypes
    THEN ExceptionPass(output, i + 1, acc)
    ELSE IF LastFailed(output, i) = 0 THEN ExceptionPass(output, i + 1, acc)
    ELSE
    LET source_file == MapTestToSourceFile(output[LastFailed(output, i)].path)
        issue_desc == ExceptionIssue(output[i].tail)
        entered == WithEntry(acc.file_results, source_file)
    IN  IF InSeq(issue_desc, IssuesOf(entered, source_file))
        THEN ExceptionPass(output, i + 1,
                [file_results |-> entered, all_issues |-> acc.all_issues])
        ELSE ExceptionPass(output, i + 1,
                [file_results |-> WithIssue(entered, source_file, issue_desc),
                 all_issues |-> Append(acc.all_issues, issue_desc)])

\* both loops over the joined messages
BothPasses(output) ==
    ExceptionPass(output, 1,
        MarkerPass(output, 1, [file_results |-> <<>>, all_issues |-> <<>>]))

\* JudgeAgent.create_correction_report; target_dir is not read
CreateCorrectionReport(tr, target_dir) ==
    IF NothingFailed(tr) THEN EmptyReport
    ELSE [file_results |-> BothPasses(tr.messages).file_results,
          all_issues |-> BothPasses(tr.messages).all_issues,
          total_issues |-> Len(BothPasses(tr.messages).all_issues),
          source |-> "test_execution"]

TranslatorInit ==
    /\ driver = "orchestrator"
    /\ InitRun
    /\ InitCorr
    /\ InitRerun
    /\ InitRetry
    /\ InitGs
    /\ InitMap
    /\ InitAu
    /\ t_result \in TestResults
    /\ t_files \in SUBSET Artifacts
    /\ t_report = NoReport

\* judge.create_correction_report(test_result, target_dir)
TranslatorCall ==
    /\ t_report = NoReport
    /\ t_report' = CreateCorrectionReport(t_result, t_files)
    /\ UNCHANGED <<t_result, t_files>>
    /\ UNCHANGED <<runVars, gsVars, mapVars, auVars, retryVars, rerunVars,
                   corrVars>>

TranslatorNext == TranslatorCall

TranslatorSpec == TranslatorInit /\ [][TranslatorNext]_vars

(* ---------------------------------------------------------------------- *)
(* AuditorAgent.execute                                                    *)
(* ---------------------------------------------------------------------- *)

\* most issues that the analysis of one file finds
MaxIssues == 2

\* most issues that the audit makes of a failed test run; five are kept
MaxTestIssues == 6

\* the Python files a target directory may hold, as sorted() orders them
FileOrder == <<"calc.py", "test_calc.py", "util.py">>

\* list_python_files: the files that the directory holds, sorted
SortedFiles(present) == SelectSeq(FileOrder, LAMBDA f : f \in present)

\* the members of a sequence
Range(seq) == {seq[i] : i \in DOMAIN seq}

\* the issues 1 .. n that are attached to a file by the analysis or by the
\* test run
IssueList(file, origin, n) ==
    [k \in 1 .. n |-> [file |-> file, origin |-> origin, n |-> k]]

\* the exceptions that reading and analysing a file may raise
ExceptionKinds == {"FileNotFoundError", "PermissionError", "Exception"}

\* the try block of _process_single_file: it finds some issues, or it
\* raises
FileOutcomes ==
    [raises : {"None"}, found : 0 .. MaxIssues]
        \cup [raises : ExceptionKinds, found : {0}]

\* a mutant of _process_single_file: without the clause "except Exception"
CaughtOnlyNamed(e) == e \in {"FileNotFoundError", "PermissionError"}

\* the except clauses of _process_single_file
Caught(e) == e \in {"FileNotFoundError", "PermissionError", "Exception"}

\* the error text that the except clause of an exception writes
ErrorText(e) ==
    CASE e = "FileNotFoundError" -> "File not found"
      [] e = "PermissionError" -> "Permission denied"
      [] OTHER -> "Unexpected error"

\* the exception leaves _process_single_file
Escapes(o) == o.raises # "None" /\ ~Caught(o.raises)

\* _process_single_file: a result with status "success" and the issues of
\* the analysis, or, on an exception, one with status "error", no issue
\* and the error text of the except clause that caught it
FileAuditResult(file, o) ==
    IF o.raises = "None"
    THEN [file |-> file, status |-> "success", error |-> "None",
          issues |-> IssueList(file, "analysis", o.found)]
    ELSE [file |-> file, status |-> "error", error |-> ErrorText(o.raises),
          issues |-> <<>>]

\* the entry that the parallel branch makes when future.result() raises
FutureErrorResult(file, o) ==
    [file |-> file, status |-> "error", error |-> o.raises, issues |-> <<>>]

\* execute did not return: an exception left it
AuditRaised == [status |-> "raised"]

\* pytest_runner.run_tests inside the audit: it passes, it raises, or it
\* fails and the output yields some test issues
TestRunOutcomes ==
    [kind : {"failed"}, found : 0 .. MaxTestIssues]
        \cup {[kind |-> "passed", found |-> 0], [kind |-> "raise", found |-> 0]}

\* test_issues[:5]
Kept(found) == IF found > 5 THEN 5 ELSE found

\* filename.startswith("test_")
IsTestFile(file) == file = "test_calc.py"

\* main_file: the first file that is no test file, else the first file
MainFile(files) ==
    IF \E i \in DOMAIN files : ~IsTestFile(files[i])
    THEN files[CHOOSE i \in DOMAIN files :
                /\ ~IsTestFile(files[i])
                /\ \A j \in DOMAIN files : ~IsTestFile(files[j]) => i <= j]
    ELSE files[1]

\* a mutant of the test run: the test issues that are kept are appended to
\* the first entry of audit_results
WithTestIssuesFirstResult(results, files, o) ==
    IF o.kind # "failed" \/ o.found = 0 THEN results
    ELSE [k \in DOMAIN results |->
            IF k = 1
            THEN [results[k] EXCEPT
                    !.issues = @ \o IssueList(results[k].file, "pytest", Kept(o.found))]
            ELSE results[k]]

\* audit_results after the test run: the test issues that are kept are
\* appended to the issues of the main file, whatever its status
WithTestIssues(results, files, o) ==
    IF o.kind # "failed" \/ o.found = 0 THEN results
    ELSE [k \in DOMAIN results |->
            IF results[k].file = MainFile(files)
            THEN [results[k] EXCEPT
                    !.issues = @ \o IssueList(MainFile(files), "pytest", Kept(o.found))]
            ELSE results[k]]

\* a mutant of the aggregation: the issues of every file are counted
IsCountedWhateverStatus(res) == TRUE

\* the aggregation takes the issues of a result unless its status is "error"
IsCounted(res) == res.status # "error"

RECURSIVE Aggregate(_, _, _)
\* the aggregation loop, from entry k of audit_results on
Aggregate(results, k, acc) ==
    IF k > Len(results) THEN acc
    ELSE IF IsCounted(results[k])
    THEN Aggregate(results, k + 1,
            [all_issues |-> acc.all_issues \o results[k].issues,
             files_with_errors |-> acc.files_with_errors])
    ELSE Aggregate(results, k + 1,
            [all_issues |-> acc.all_issues,
             files_with_errors |-> acc.files_with_errors + 1])

\* the AuditSummary that execute returns
AuditSummary(files, results) ==
    LET agg == Aggregate(results, 1, [all_issues |-> <<>>, files_with_errors |-> 0])
    IN  [files_audited |-> Len(files), total_issues |-> Len(agg.all_issues),
         file_results |-> results, all_issues |-> agg.all_issues,
         files_with_errors |-> agg.files_with_errors, status |-> "audit_complete"]

\* the summary that execute returns for a directory without Python files
NoFilesSummary ==
    [files_audited |-> 0, total_issues |-> 0, file_results |-> <<>>,
     all_issues |-> <<>>, files_with_errors |-> 0, status |-> "no_files_found"]

\* the files whose result is not in audit_results yet
Pending == Range(a_files) \ {a_results[k].file : k \in DOMAIN a_results}

AuditInit ==
    /\ driver = "orchestrator"
    /\ InitRun
    /\ InitCorr
    /\ InitRerun
    /\ InitRetry
    /\ InitGs
    /\ InitMap
    /\ InitTr
    /\ a_files \in {SortedFiles(present) : present \in SUBSET Range(FileOrder)}
    /\ a_parallel \in BOOLEAN
    /\ a_content \in [Range(a_files) -> FileOutcomes]
    /\ a_test \in TestRunOutcomes
    /\ a_pc = "start"
    /\ a_results = <<>>
    /\ a_summary = NoSummary

\* execute up to the processing of the files
AuditListFiles ==
    /\ a_pc = "start"
    /\ IF a_files = <<>>
       THEN /\ a_summary' = NoFilesSummary
            /\ a_pc' = "done"
       ELSE /\ a_pc' = "files"
            /\ UNCHANGED a_summary
    /\ UNCHANGED <<a_files, a_parallel, a_content, a_test, a_results>>
    /\ UNCHANGED <<runVars, gsVars, mapVars, trVars, retryVars, rerunVars,
                   corrVars>>

\* the result of one file enters audit_results: of any file that is still
\* processed when the files are processed in parallel (as_completed), of
\* the next file of the list otherwise
AuditFileResult ==
    /\ a_pc = "files"
    /\ \E f \in Pending :
        /\ (a_parallel /\ Len(a_files) > 1) \/ f = a_files[Len(a_results) + 1]
        /\ IF Escapes(a_content[f]) /\ ~(a_parallel /\ Len(a_files) > 1)
           THEN /\ a_summary' = AuditRaised
                /\ a_pc' = "done"
                /\ UNCHANGED a_results
           ELSE /\ a_results' =
                    Append(a_results,
                           IF Escapes(a_content[f])
                           THEN FutureErrorResult(f, a_content[f])
                           ELSE FileAuditResult(f, a_content[f]))
                /\ a_pc' = IF Pending = {f} THEN "tests" ELSE "files"
                /\ UNCHANGED a_summary
    /\ UNCHANGED <<a_files, a_parallel, a_content, a_test>>
    /\ UNCHANGED <<runVars, gsVars, mapVars, trVars, retryVars, rerunVars,
                   corrVars>>

\* the test run of the audit, the aggregation and the return
AuditTestsAndSummary ==
    /\ a_pc = "tests"
    /\ a_results' = WithTestIssues(a_results, a_files, a_test)
    /\ a_summary' = AuditSummary(a_files, a_results')
    /\ a_pc' = "done"
    /\ UNCHANGED <<a_files, a_parallel, a_content, a_test>>
    /\ UNCHANGED <<runVars, gsVars, mapVars, trVars, retryVars, rerunVars,
                   corrVars>>

AuditNext ==
    \/ AuditListFiles
    \/ AuditFileResult
    \/ AuditTestsAndSummary

AuditSpec == AuditInit /\ [][AuditNext]_vars

(* ---------------------------------------------------------------------- *)
(* CorrectorAgent.execute_with_retry                                       *)
(* ---------------------------------------------------------------------- *)

\* CorrectorConfig.MAX_RETRIES, the default of max_retries
MAX_RETRIES == 3

\* the largest max_retries that a call is given
MaxRetriesArg == 3

\* can_retry: the substrings that make a reason recoverable
RecoverableErrors ==
    {"incomplete", "needs_iteration", "partial_fix", "retry", "timeout",
     "temporary"}

\* the status of a CorrectionSummary and other statuses, as words
Statuses ==
    {<<"correction_complete">>, <<"needs_iteration">>, <<"Partial_Fix">>,
     <<"rejected">>}

\* str(e) of the exceptions that execute raises, as words
ExceptionTexts ==
    {<<"Target", "directory", "does", "not", "exist">>,
     <<"Timeout", "expired">>, <<"retrying", "later">>, <<"invalid">>}

\* what one call of execute gives: a result with a status, or an exception
ExecuteOutcomes ==
    [kind : {"result"}, text : Statuses]
        \cup [kind : {"exception"}, text : ExceptionTexts]

\* str.lower() of a word
Lower(word) ==
    CASE word = "Partial_Fix" -> "partial_fix"
      [] word = "Timeout" -> "timeout"
      [] word = "Target" -> "target"
      [] OTHER -> word

\* key in word, for a lower-case word: a recoverable key is a substring of
\* the word
IsIn(key, word) == key = word \/ (key = "retry" /\ word = "retrying")

\* can_retry
CanRetry(rejection_reason) ==
    \E i \in DOMAIN rejection_reason, error \in RecoverableErrors :
        IsIn(error, Lower(rejection_reason[i]))

\* a mutant of the test for the last attempt: one attempt too late
IsLastAttemptOffByOne(k, n) == k = n

\* attempt == max_retries - 1
IsLastAttempt(k, n) == k = n - 1

\* the RuntimeError raised after the loop
AllAttemptsFailed ==
    [kind |-> "exception", text |-> <<"All", "correction", "attempts", "failed">>]

RetryInit ==
    /\ driver = "orchestrator"
    /\ InitRun
    /\ InitCorr
    /\ InitRerun
    /\ InitGs
    /\ InitMap
    /\ InitTr
    /\ InitAu
    /\ max_retries \in 0 .. MaxRetriesArg
    /\ attempt = 0
    /\ r_pc = "loop"
    /\ r_outcomes = <<>>
    /\ r_end = NoOutcome

\* one pass of the loop: execute is called, its result or exception is
\* looked at (the sleep before the next attempt changes nothing)
RetryAttempt ==
    /\ r_pc = "loop"
    /\ attempt < max_retries
    /\ \E o \in ExecuteOutcomes :
        /\ r_outcomes' = Append(r_outcomes, o)
        /\ IF o.kind = "result"
           THEN IF o.text = <<"correction_complete">> \/ ~CanRetry(o.text)
                THEN /\ r_pc' = "returned"
                     /\ r_end' = o
                     /\ UNCHANGED attempt
                ELSE /\ attempt' = attempt + 1
                     /\ UNCHANGED <<r_pc, r_end>>
           ELSE IF IsLastAttempt(attempt, max_retries) \/ ~CanRetry(o.text)
                THEN /\ r_pc' = "raised"
                     /\ r_end' = o
                     /\ UNCHANGED attempt
                ELSE /\ attempt' = attempt + 1
                     /\ UNCHANGED <<r_pc, r_end>>
    /\ UNCHANGED max_retries
    /\ UNCHANGED <<runVars, gsVars, mapVars, trVars, auVars, rerunVars,
                   corrVars>>

\* the loop is over: RuntimeError
RetryExhausted ==
    /\ r_pc = "loop"
    /\ attempt >= max_retries
    /\ r_pc' = "raised"
    /\ r_end' = AllAttemptsFailed
    /\ UNCHANGED <<max_retries, attempt, r_outcomes>>
    /\ UNCHANGED <<runVars, gsVars, mapVars, trVars, auVars, rerunVars,
                   corrVars>>

RetryNext ==
    \/ RetryAttempt
    \/ RetryExhausted

\* the loop is sequential code: a pass that can be made is made
RetrySpec == RetryInit /\ [][RetryNext]_vars /\ WF_vars(RetryNext)

(* ---------------------------------------------------------------------- *)
(* Orchestrator.run called again on the same instance                      *)
(* ---------------------------------------------------------------------- *)

\* the most calls of run on one Orchestrator
MaxRuns == 3

\* the JUDGE rounds that reject before the round that ends the run
RejectedRounds == {0, 1, 2, MAX_ITERATIONS}

\* what the collaborators do during one call of run: the outcome of the
\* audit, the number of rounds that the judge rejects, and whether the
\* round after them ends with an approval or with a failed fix
RunScripts ==
    [audit : {"ok", "other_status"}, rejected : RejectedRounds,
     last : {"approve", "fix_fails"}]

\* the fixer of a round: it fails in the last round of a script that says so
FixOfRound(rejected, last) ==
    [kind |-> "dict",
     status |-> IF rejected = 0 /\ last = "fix_fails" THEN "other" ELSE "SUCCESS",
     total_corrections |-> 1]

\* the judge of a round: it approves in the last round
JudgeOfRound(rejected) ==
    [kind |-> "dict", approved |-> IF rejected = 0 THEN "True" ELSE "False",
     success |-> Absent, failed |-> 0, errors |-> 0]

\* the graph and what run returns
Returned(hist, state, count, res, callno) ==
    [history |-> hist, current_state |-> state, iteration_count |-> count,
     result |-> res, calls |-> callno]

RECURSIVE RunLoop(_, _, _, _, _)
\* the while loop of run, entered with this history and iteration_count
\* after callno phase calls
RunLoop(hist, count, rejected, last, callno) ==
    IF ~CanContinue(count)
    THEN Returned(hist, "MAX_ITERATIONS", count, MaxIterationsResult(count), callno)
    ELSE
        LET next == IncrementIteration(count)
            fr == RunFix(FixOfRound(rejected, last))
            jr == RunJudge(JudgeOfRound(rejected))
            fixed == RecordStep(hist, next, "FIX", callno + 1)
            judged == RecordStep(fixed, next, "JUDGE", callno + 2)
        IN  IF PhaseFailed(fr)
            THEN Returned(hist, "FIX", next,
                          ErrorResult("Fix failed", "Fix error", next), callno + 1)
            ELSE IF JudgeDecision(jr)
            THEN Returned(judged, "SUCCESS", next, SuccessResult(next), callno + 2)
            ELSE IF ~CanContinue(next)
            THEN Returned(judged, "MAX_ITERATIONS", next,
                          MaxIterationsResult(next), callno + 2)
            ELSE RunLoop(judged, next, rejected - 1, last, callno + 2)

\* one call of run: current_state and iteration_count are set anew, the
\* history is the one the graph holds
Run(hist, script, callno) ==
    LET ar == RunAudit(script.audit)
    IN  IF PhaseFailed(ar)
        THEN Returned(hist, "AUDIT", 0,
                      ErrorResult("Audit failed", ar.message, 0), callno + 1)
        ELSE RunLoop(RecordStep(hist, 0, "AUDIT", callno + 1), 0,
                     script.rejected, script.last, callno + 1)

RerunInit ==
    /\ driver = "orchestrator"
    /\ InitRun
    /\ InitCorr
    /\ InitGs
    /\ InitMap
    /\ InitTr
    /\ InitAu
    /\ InitRetry
    /\ InitRerun

\* run is called on the Orchestrator and returns
RunCall ==
    /\ rr_runs < MaxRuns
    /\ \E script \in RunScripts :
        LET r == Run(rr_history, script, rr_calls)
        IN  /\ rr_history' = r.history
            /\ rr_state' = r.current_state
            /\ rr_count' = r.iteration_count
            /\ rr_result' = r.result
            /\ rr_calls' = r.calls
    /\ rr_before' = rr_calls
    /\ rr_runs' = rr_runs + 1
    /\ UNCHANGED <<runVars, gsVars, mapVars, trVars, auVars, retryVars,
                   corrVars>>

RerunNext == RunCall

RerunSpec == RerunInit /\ [][RerunNext]_vars

(* ---------------------------------------------------------------------- *)
(* CorrectorAgent.execute                                                  *)
(* ---------------------------------------------------------------------- *)

\* CorrectorConfig.MAX_ISSUES_PER_FILE
MAX_ISSUES_PER_FILE == 3

\* most issues that the audit report lists for one file
MaxFileIssues == 4

\* the files that the audit report may name, in the order of its dictionary
ReportOrder == <<"calc.py", "util.py">>

\* an issue for which generate_correction changes the code, and one for
\* which it does not
IssueKinds == {"fixable", "unfixable"}

\* what happens to a file: the audit recorded an error for it, reading it
\* raises FileNotFoundError, writing it raises, or nothing fails
FileFates == {"audit_error", "not_found", "write_fails", "ok"}

\* the issue lists of up to MaxFileIssues issues
FileIssueLists ==
    UNION {[1 .. n -> IssueKinds] : n \in 0 .. MaxFileIssues}

\* the entries of file_results for the files of a report
ReportsOf(present) ==
    LET files == SelectSeq(ReportOrder, LAMBDA f : f \in present)
    IN  {rep \in [DOMAIN files -> [file : present, fate : FileFates,
                                   issues : FileIssueLists]] :
            \A k \in DOMAIN files : rep[k].file = files[k]}

\* generate_correction: the status of the Correction it returns
GenerateCorrection(issue) ==
    [issue |-> issue,
     status |-> IF issue = "fixable" THEN "corrected" ELSE "unchanged"]

\* file_issues[:MAX_ISSUES_PER_FILE]
IssuesToFix(file_issues) ==
    SubSeq(file_issues, 1,
           IF Len(file_issues) > MAX_ISSUES_PER_FILE
           THEN MAX_ISSUES_PER_FILE ELSE Len(file_issues))

\* file_corrections: one Correction for every issue to fix
FileCorrections(entry) ==
    [k \in DOMAIN IssuesToFix(entry.issues) |->
        GenerateCorrection(IssuesToFix(entry.issues)[k])]

\* should_write and file_corrections
ShouldWrite(file_corrections) ==
    /\ \E k \in DOMAIN file_corrections : file_corrections[k].status = "corrected"
    /\ file_corrections # <<>>

\* the file is left out of corrections: the audit recorded an error for
\* it, or, once it is read, it has no issues
Skipped(entry) ==
    \/ entry.fate = "audit_error"
    \/ entry.fate # "not_found" /\ entry.issues = <<>>

\* corrections[filename]
FileCorrectionResult(entry) ==
    IF entry.fate = "not_found"
    THEN [file |-> entry.file, corrections_count |-> 0, corrections |-> <<>>,
          status |-> "error"]
    ELSE [file |-> entry.file,
          corrections_count |-> Len(FileCorrections(entry)),
          corrections |-> FileCorrections(entry),
          status |-> IF ShouldWrite(FileCorrections(entry))
                        /\ entry.fate = "write_fails"
                     THEN "error" ELSE "corrected"]

\* file_path.write_text(code) is reached and does not raise
Writes(entry) ==
    /\ ~Skipped(entry)
    /\ entry.fate = "ok"
    /\ ShouldWrite(FileCorrections(entry))

RECURSIVE TotalCorrections(_, _)
\* the sum of corrections_count over the first k entries of corrections
\* whose status is "corrected"
TotalCorrections(corrections, k) ==
    IF k = 0 THEN 0
    ELSE TotalCorrections(corrections, k - 1) +
         (IF corrections[k].status = "corrected"
          THEN corrections[k].corrections_count ELSE 0)

\* the CorrectionSummary that execute returns
CorrectionSummary(report) ==
    LET kept == SelectSeq(report, LAMBDA entry : ~Skipped(entry))
        corrections == [k \in DOMAIN kept |-> FileCorrectionResult(kept[k])]
    IN  [files_corrected |-> Len(corrections),
         total_corrections |-> TotalCorrections(corrections, Len(corrections)),
         corrections |-> corrections, status |-> "correction_complete"]

CorrectorInit ==
    /\ driver = "orchestrator"
    /\ InitRun
    /\ InitGs
    /\ InitMap
    /\ InitTr
    /\ InitAu
    /\ InitRetry
    /\ InitRerun
    /\ c_report \in UNION {ReportsOf(present) : present \in SUBSET Range(ReportOrder)}
    /\ c_pc = "start"
    /\ c_written = {}
    /\ c_summary = NoCorrectionSummary

\* execute for a valid directory and a valid audit report
CorrectorExecute ==
    /\ c_pc = "start"
    /\ c_written' = {c_report[k].file : k \in {j \in DOMAIN c_report : Writes(c_report[j])}}
    /\ c_summary' = CorrectionSummary(c_report)
    /\ c_pc' = "done"
    /\ UNCHANGED c_report
    /\ UNCHANGED <<runVars, gsVars, mapVars, trVars, auVars, retryVars, rerunVars>>

CorrectorNext == CorrectorExecute

CorrectorSpec == CorrectorInit /\ [][CorrectorNext]_vars

(* ---------------------------------------------------------------------- *)
(* What a run shows                                                        *)
(* ---------------------------------------------------------------------- *)

Done == pc = "done"

\* the terminal state a run reports: the 'state' of the result of
\* Orchestrator.run; for main(), the cause it prints before it exits (none
\* when the command line only asked for the help)
TerminalState ==
    IF driver = "orchestrator" THEN result.state
    ELSE IF cause = "MISSION COMPLETE" THEN "SUCCESS"
    ELSE IF cause = "MISSION FAILED" THEN "MAX_ITERATIONS"
    ELSE IF cause \in {"FATAL ERROR", "INVALID TARGET", "USAGE"} THEN "ERROR"
    ELSE Absent

\* the iteration count a finished run reports
Iterations ==
    IF driver = "orchestrator" THEN result.iterations ELSE iteration_count

NumCalls(agent) == Cardinality({i \in DOMAIN calls : calls[i].agent = agent})

\* the JUDGE of the current iteration has returned a result and the run has
\* acted on it: it stands at the loop head again, or it has ended
Decided ==
    /\ pc \in {"loop", "done"}
    /\ iteration_count >= 1
    /\ judge_round = iteration_count
    /\ judge_result.kind = "dict"

\* the last JUDGE result carries the signal on which the code stops:
\* 'approved' for the Orchestrator, 'success' with failed == 0 for main()
Accepted ==
    \/ driver = "orchestrator" /\ judge_result.approved \in {"True", "1"}
    \/ driver = "main" /\ judge_result.success = "True" /\ judge_result.failed = 0

EndedIn(state) == Done /\ TerminalState = state

\* after a round that was not accepted: another FIX while iterations are
\* left, MAX_ITERATIONS at the ceiling
RetriesUpToCeiling ==
    /\ iteration_count < MAX_ITERATIONS => pc = "loop"
    /\ iteration_count >= MAX_ITERATIONS =>
        /\ EndedIn("MAX_ITERATIONS")
        /\ Iterations = MAX_ITERATIONS
        /\ NumCalls("fixer") = MAX_ITERATIONS

(* ---------------------------------------------------------------------- *)
(* Claims                                                                  *)
(* ---------------------------------------------------------------------- *)

C2_AtMostMaxIterationsFixes ==
    /\ NumCalls("fixer") <= MAX_ITERATIONS
    /\ iteration_count <= MAX_ITERATIONS
    /\ Done => Iterations <= MAX_ITERATIONS

C2_Witness ==
    /\ Done
    /\ NumCalls("fixer") = MAX_ITERATIONS
    /\ Iterations = MAX_ITERATIONS

\* the failed-count of the last JUDGE round is not below that of the round
\* before, and failures remain
NoProgress ==
    /\ Decided
    /\ prev_failed # NoCount
    /\ judge_result.failed >= prev_failed
    /\ judge_result.failed > 0

Stalled ==
    /\ Decided
    /\ fix_result.kind = "dict"
    /\ fix_result.total_corrections = 0
    /\ (judge_result.failed > 0 \/ judge_result.errors > 0)

PreflightCauses == {"INVALID TARGET", "USAGE", "HELP"}

\* C6: the auditor is called once, first, and never again; after it the
\* calls alternate fixer, judge, fixer, judge, ..., the k-th fixer call and
\* the k-th judge call both made in iteration k; at most one call runs at a
\* time; and a run that got past the validation of its input and has ended
\* has called the auditor.
C6_OneAuditThenFixJudgeAlternate ==
    /\ \A i \in DOMAIN calls :
        /\ i = 1 => calls[i] = [agent |-> "auditor", iteration |-> 0]
        /\ (i > 1 /\ i % 2 = 0) =>
            calls[i] = [agent |-> "fixer", iteration |-> i \div 2]
        /\ (i > 1 /\ i % 2 = 1) =>
            calls[i] = [agent |-> "judge", iteration |-> (i - 1) \div 2]
    /\ Cardinality(active) <= 1
    /\ (Done /\ cause \notin PreflightCauses) => NumCalls("auditor") = 1

C6_Witness ==
    /\ Done
    /\ Len(calls) = 5
    /\ NumCalls("auditor") = 1
    /\ calls[5] = [agent |-> "judge", iteration |-> 2]

\* C7: while a fixer call runs, its input is the audit summary in
\* iteration 1 and, in iteration k > 1, the report made from the JUDGE
\* result of iteration k - 1.
C7_FixerGetsLastJudgeReport ==
    pc = "fix" =>
        /\ iteration_count = 1 => fixer_input = [source |-> "audit", round |-> 0]
        /\ iteration_count > 1 =>
            fixer_input = [source |-> "judge", round |-> iteration_count - 1]

\* C8: when a collaborator has just raised, the run has ended in ERROR with
\* a message.
C8_RaiseEndsInError ==
    raised # Absent =>
        /\ EndedIn("ERROR")
        /\ driver = "orchestrator" => result.message # Absent

\* the steps a run can still take: three per iteration that is left, and
\* the steps left in the current one
PcRank ==
    CASE pc = "start" -> 3
      [] pc = "ready" -> 2
      [] pc = "audit" -> 1
      [] pc = "loop" -> 0
      [] pc = "fix" -> 2
      [] pc = "judge" -> 1
      [] pc = "done" -> 0

RunMeasure ==
    IF Done THEN 0 ELSE 3 * (MAX_ITERATIONS + 1 - iteration_count) + PcRank

\* C9: every run ends, and what it then reports is SUCCESS, MAX_ITERATIONS
\* or ERROR: a run that has not ended can take a step, whatever the
\* collaborators return or raise; every step lowers a measure that never
\* goes below 0, so the steps of a run are bounded; and a run that has
\* ended reports one of the three terminal states (a command line that
\* only asks for the help starts no run).
C9_EveryRunEndsInTerminalState ==
    /\ [](Done \/ ENABLED Next)
    /\ [][RunMeasure' < RunMeasure]_vars
    /\ [](RunMeasure >= 0)
    /\ []((Done /\ cause # "HELP") => TerminalState \in TerminalStates)
    /\ []((Done /\ driver = "orchestrator") => result.status \in TerminalStates)

C9_Witness ==
    /\ Done
    /\ TerminalState = "MAX_ITERATIONS"
    /\ iteration_count = MAX_ITERATIONS

\* the transitions of the graph, written out
ExpectedNext(state, decision, count) ==
    CASE state = "INIT" -> "AUDIT"
      [] state = "AUDIT" -> "FIX"
      [] state = "FIX" -> "JUDGE"
      [] state = "JUDGE" /\ decision = "True" -> "SUCCESS"
      [] state = "JUDGE" /\ decision = "False" /\ count < 10 -> "FIX"
      [] state = "JUDGE" /\ decision = "False" /\ count >= 10 -> "MAX_ITERATIONS"
      [] state = "JUDGE" /\ decision \notin {"True", "False"} -> "ERROR"
      [] state \notin {"INIT", "AUDIT", "FIX", "JUDGE"} -> "ERROR"

\* C10: get_next_state returns AUDIT from INIT, FIX from AUDIT, JUDGE from
\* FIX, whatever the decision; from JUDGE, SUCCESS on True, FIX on False
\* below the ceiling, MAX_ITERATIONS on False at or above it, ERROR on any
\* other decision; and ERROR from any other state.
C10_GetNextStateTable ==
    gs_next # Absent => gs_next = ExpectedNext(gs_state, gs_decision, gs_count)

C10_Witness ==
    /\ gs_next = "MAX_ITERATIONS"
    /\ gs_state = "JUDGE"
    /\ gs_decision = "False"
    /\ gs_count = MAX_ITERATIONS

\* the phase calls that have returned or raised
Executed == Len(calls) - Cardinality(active)

\* the ExecutionState under which the call of an agent is recorded
PhaseOf(agent) ==
    IF agent = "auditor" THEN "AUDIT"
    ELSE IF agent = "fixer" THEN "FIX"
    ELSE "JUDGE"

\* the record that the i-th phase call leaves in the history
RecordOf(i) ==
    [iteration |-> calls[i].iteration, state |-> PhaseOf(calls[i].agent),
     result |-> i]

\* C11: within a run of the Orchestrator the history only grows at its end,
\* and it holds one (iteration, state, outcome) record for every phase call
\* that has returned or raised, in call order, the call whose outcome ended
\* the run included.
C11_HistoryRecordsEveryCall ==
    /\ [][\E n \in 0 .. Len(history') : SubSeq(history', 1, n) = history]_vars
    /\ [](driver = "orchestrator" =>
            /\ Len(history) = Executed
            /\ \A i \in DOMAIN history : history[i] = RecordOf(i))

ArgumentsParsed == cause \notin {"HELP", "USAGE"}

Translated == t_report # NoReport

\* the keys of file_results, in the order of their insertion
ReportKeys == [k \in DOMAIN t_report.file_results |-> t_report.file_results[k].file]

\* C13: whenever the test result has failed == 0 and errors == 0, the
\* report is empty (no artifact keys, no issues, total_issues = 0),
\* whatever the lines of the output hold.
C13_NoFailuresGiveEmptyReport ==
    (Translated /\ t_result.failed = 0 /\ t_result.errors = 0) =>
        /\ t_report.file_results = <<>>
        /\ t_report.all_issues = <<>>
        /\ t_report.total_issues = 0

C13_Witness ==
    /\ Translated
    /\ t_result.failed = 0
    /\ t_result.errors = 0
    /\ \E i \in DOMAIN t_result.messages : IsMarker(t_result.messages[i])
    /\ \E i \in DOMAIN t_result.messages :
        t_result.messages[i].tail.kind \in ErrorTypes
    /\ t_report.total_issues = 0

\* C15: the name returned for a test path is the last component of the
\* path, without its directories, less one leading "test_" if it has one
\* (test_calc.py and tests/test_calc.py both give calc.py; a second
\* "test_" stays); a last component without the prefix is returned as it
\* is.
C15_BaseNameLessOneTestPrefix ==
    m_source # NoSource =>
        LET base == m_path[Len(m_path)]
        IN  /\ base[1] = "test_" => <<"test_">> \o m_source = base
            /\ base[1] # "test_" => m_source = base
            /\ \A k \in DOMAIN m_source : m_source[k] \in NameTokens
            /\ m_path \in {TestCalcPy, TestsTestCalcPy} =>
                m_source = <<"calc", ".py">>

C15_Witness ==
    /\ m_path = <<<<"tests">>, <<"test_", "test_", ".py">>>>
    /\ m_source = <<"test_", ".py">>

\* the two lines of Scenario A:
\* FAILED calc_test.py::test_add - assert -1 == 5
\* FAILED calc_test.py::test_mul - assert 5 == 6
ScenarioA ==
    <<SummaryLine(CalcTestPy, "test_add", AssertTail("-1", "5")),
      SummaryLine(CalcTestPy, "test_mul", AssertTail("5", "6"))>>

\* C16: for the two lines of Scenario A, with failures counted, the report
\* has exactly one key, calc.py, with two issues in this order: the first
\* names test_add and -1 == 5, the second names test_mul and 5 == 6.
C16_ScenarioAGivesCalcPy ==
    (Translated /\ t_result.messages = ScenarioA /\ t_result.failed > 0) =>
        /\ ReportKeys = <<<<"calc", ".py">>>>
        /\ Len(t_report.file_results[1].issues) = 2
        /\ t_report.file_results[1].issues[1] =
            [kind |-> "expected", test |-> "test_add", a |-> "-1", b |-> "5"]
        /\ t_report.file_results[1].issues[2] =
            [kind |-> "expected", test |-> "test_mul", a |-> "5", b |-> "6"]

\* no line occurs twice in the output
DistinctLines ==
    \A i, j \in DOMAIN t_result.messages :
        i # j => t_result.messages[i] # t_result.messages[j]

\* C17: in every report, made from an output whose lines all differ, no
\* issue string occurs twice in the list of one artifact, whether it comes
\* from a FAILED marker or from an exception.
C17_NoDuplicateIssuePerArtifact ==
    (Translated /\ DistinctLines) =>
        \A k \in DOMAIN t_report.file_results :
            \A i, j \in DOMAIN t_report.file_results[k].issues :
                i # j => t_report.file_results[k].issues[i] #
                         t_report.file_results[k].issues[j]

\* C18: every key of a report names a file that the target directory
\* holds.
C18_KeysNameExistingArtifacts ==
    Translated =>
        \A k \in DOMAIN t_report.file_results :
            t_report.file_results[k].file \in t_files

\* the issues of a report that come from FAILED markers
MarkerIssuesOf(issues) ==
    {i \in DOMAIN issues : issues[i].kind # "exception"}

\* C19: when failures are counted, every line "FAILED <path>::<test>" of
\* the output has an issue that names its test in the entry of the file
\* its path maps to (the generic string when no assertion is found), and
\* the report holds as many such issues as the output has such lines: none
\* is dropped.
C19_EveryMarkerContributesAnIssue ==
    (Translated /\ ~NothingFailed(t_result)) =>
        /\ \A i \in DOMAIN t_result.messages :
            t_result.messages[i].kind = "summary" =>
                \E n \in MarkerIssuesOf(
                            IssuesOf(t_report.file_results,
                                     MapTestToSourceFile(t_result.messages[i].path))) :
                    IssuesOf(t_report.file_results,
                             MapTestToSourceFile(t_result.messages[i].path))[n].test
                        = t_result.messages[i].test
        /\ Cardinality(MarkerIssuesOf(t_report.all_issues)) =
            Cardinality({i \in DOMAIN t_result.messages :
                            t_result.messages[i].kind = "summary"})

RECURSIVE SumOfIssues(_, _)
\* the lengths of the issue lists of the first k entries whose status is
\* not "error", added up
SumOfIssues(file_results, k) ==
    IF k = 0 THEN 0
    ELSE SumOfIssues(file_results, k - 1) +
         (IF file_results[k].status = "error" THEN 0
          ELSE Len(file_results[k].issues))

\* execute has returned a summary
Audited == a_summary # NoSummary

\* C20: in every audit summary total_issues is the sum of the lengths of
\* the issue lists of the files whose status is not "error", and it is the
\* length of all_issues; no issue attached to a file whose status is
\* "error" is in all_issues.
C20_TotalIssuesCountsAnalysedFiles ==
    Audited =>
        /\ a_summary.total_issues =
            SumOfIssues(a_summary.file_results, Len(a_summary.file_results))
        /\ a_summary.total_issues = Len(a_summary.all_issues)
        /\ \A k \in DOMAIN a_summary.file_results :
            a_summary.file_results[k].status = "error" =>
                \A i \in DOMAIN a_summary.all_issues :
                    a_summary.all_issues[i].file # a_summary.file_results[k].file

\* an error file that the test issues were attached to, beside a file
\* whose issues are counted
C20_Witness ==
    /\ Audited
    /\ a_summary.total_issues = 2
    /\ \E k \in DOMAIN a_summary.file_results :
        /\ a_summary.file_results[k].status = "error"
        /\ Len(a_summary.file_results[k].issues) = 5
    /\ \E k \in DOMAIN a_summary.file_results :
        /\ a_summary.file_results[k].status = "success"
        /\ Len(a_summary.file_results[k].issues) = 2

(* ---------------------------------------------------------------------- *)
(* The audit, sequential against parallel                                  *)
(* ---------------------------------------------------------------------- *)

\* audit_results of the sequential branch: the files in list order
SequentialResults(files, content) ==
    [k \in DOMAIN files |-> FileAuditResult(files[k], content[files[k]])]

\* what execute(target_dir, parallel=False) returns for the same files
SequentialSummary(files, content, test) ==
    IF files = <<>> THEN NoFilesSummary
    ELSE AuditSummary(files,
            WithTestIssues(SequentialResults(files, content), files, test))

\* the files were processed by the worker pool
RanInParallel == a_parallel /\ Len(a_files) > 1

\* C21: an audit that processed its files in parallel returns the same
\* files_audited, total_issues and files_with_errors and the same set of
\* issues as the sequential audit of the same files with the same content,
\* whatever the order in which the workers completed.
C21_ParallelEqualsSequential ==
    (Audited /\ RanInParallel) =>
        LET seq == SequentialSummary(a_files, a_content, a_test)
        IN  /\ a_summary.files_audited = seq.files_audited
            /\ a_summary.total_issues = seq.total_issues
            /\ a_summary.files_with_errors = seq.files_with_errors
            /\ Range(a_summary.all_issues) = Range(seq.all_issues)

\* a parallel audit of three files that completed in another order than
\* the list order, one file failed, with issues of analysis and test run
C21_Witness ==
    /\ Audited
    /\ RanInParallel
    /\ Len(a_files) = 3
    /\ a_summary.file_results[1].file = a_files[3]
    /\ a_summary.file_results[2].file = a_files[1]
    /\ a_summary.files_with_errors = 1
    /\ a_summary.total_issues > 2
    /\ a_summary.all_issues # SequentialSummary(a_files, a_content, a_test).all_issues

(* ---------------------------------------------------------------------- *)
(* A file whose analysis fails                                             *)
(* ---------------------------------------------------------------------- *)

\* the files whose analysis raised
FailedFiles == {f \in Range(a_files) : a_content[f].raises # "None"}

\* execute is over and there were files to process
BatchOver == a_pc = "done" /\ a_files # <<>>

\* C22: when the analysis of files raises, execute still returns a
\* summary; every file of the list has one entry in file_results, an
\* entry has status "error" exactly when the analysis of its file raised
\* and then holds the error text of the exception and no analysis issue,
\* the entry of every other file holds the issues of its analysis,
\* files_audited is the number of files listed, files_with_errors the
\* number of files that failed, and all_issues holds the issues of the other
\* files and of no failed file.
C22_FileFailureStaysInItsEntry ==
    BatchOver =>
        /\ a_summary # AuditRaised
        /\ Len(a_summary.file_results) = Len(a_files)
        /\ \A f \in Range(a_files) :
            \E k \in DOMAIN a_summary.file_results :
                LET res == a_summary.file_results[k]
                IN  /\ res.file = f
                    /\ res.status = "error" <=> f \in FailedFiles
                    /\ f \in FailedFiles =>
                        /\ res.error = ErrorText(a_content[f].raises)
                        /\ \A i \in DOMAIN res.issues : res.issues[i].origin # "analysis"
                    /\ f \notin FailedFiles =>
                        /\ \A n \in 1 .. a_content[f].found :
                            \E i \in DOMAIN res.issues :
                                res.issues[i] = [file |-> f, origin |-> "analysis", n |-> n]
                        /\ Range(res.issues) \subseteq Range(a_summary.all_issues)
        /\ a_summary.files_audited = Len(a_files)
        /\ a_summary.files_with_errors = Cardinality(FailedFiles)
        /\ \A i \in DOMAIN a_summary.all_issues :
            a_summary.all_issues[i].file \notin FailedFiles
        /\ (Len(a_files) = 3 /\ Cardinality(FailedFiles) = 1) =>
            (a_summary.files_audited = 3 /\ a_summary.files_with_errors = 1)

\* scenario B: three files, the second raises a permission error, the
\* other two have issues, and the files were processed one after another
C22_Witness ==
    /\ BatchOver
    /\ ~RanInParallel
    /\ Len(a_files) = 3
    /\ a_content[a_files[1]].raises = "None"
    /\ a_content[a_files[2]].raises = "PermissionError"
    /\ a_content[a_files[3]].raises = "None"
    /\ a_summary # AuditRaised
    /\ a_summary.files_audited = 3
    /\ a_summary.files_with_errors = 1
    /\ a_summary.total_issues = a_content[a_files[1]].found + a_content[a_files[3]].found
    /\ a_summary.total_issues > 1

(* ---------------------------------------------------------------------- *)
(* A test run that times out                                               *)
(* ---------------------------------------------------------------------- *)

\* run_tests when subprocess.run raises TimeoutExpired: the dictionary
\* with success False, failed 0 and errors 1
TimeoutOutcome ==
    [kind |-> "dict", approved |-> Absent, success |-> "False",
     failed |-> 0, errors |-> 1]

\* the judge of main() returns the outcome of a test run that timed out
JudgeTimesOut ==
    /\ driver = "main"
    /\ pc = "judge"
    /\ pc' # "judge"
    /\ raised' = Absent
    /\ judge_result' = TimeoutOutcome

\* C23: a test run that timed out gives an outcome with success false and
\* at least one error; the round of main() that receives it is a failed
\* round: main() does not exit with 0 on it, it goes on to another round
\* while the iteration is below the ceiling and stops with MISSION FAILED
\* and exit code 1 when the iteration is the ceiling.
C23_TimedOutRoundIsFailedRound ==
    /\ [][JudgeTimesOut =>
            /\ judge_result'.success = "False"
            /\ judge_result'.errors >= 1
            /\ judge_round' = iteration_count
            /\ iteration_count \in 1 .. MAX_ITERATIONS
            /\ IF iteration_count < MAX_ITERATIONS
               THEN pc' = "loop" /\ exit_code' = NoCount
               ELSE pc' = "done" /\ exit_code' = 1 /\ cause' = "MISSION FAILED"]_vars
    /\ []((driver = "main" /\ Done /\ judge_result = TimeoutOutcome)
            => (exit_code = 1 /\ cause # "MISSION COMPLETE"))

\* main() has stopped at the ceiling after a round whose test run timed out
C23_Witness ==
    /\ driver = "main"
    /\ Done
    /\ judge_result = TimeoutOutcome
    /\ judge_round = MAX_ITERATIONS
    /\ cause = "MISSION FAILED"
    /\ exit_code = 1

(* ---------------------------------------------------------------------- *)
(* A failed audit or fix                                                   *)
(* ---------------------------------------------------------------------- *)

\* _run_audit has given a result whose status is not 'SUCCESS'
AuditFails ==
    /\ driver = "orchestrator"
    /\ pc = "audit"
    /\ pc' # "audit"
    /\ audit_result'.status # "SUCCESS"

\* _run_fix has given a result whose status is not 'SUCCESS'
FixFails ==
    /\ driver = "orchestrator"
    /\ pc = "fix"
    /\ pc' # "fix"
    /\ fix_result'.status # "SUCCESS"

\* run returns the error result with this message and calls nobody
ReturnsError(message) ==
    /\ pc' = "done"
    /\ result'.status = "ERROR"
    /\ result'.message = message
    /\ calls' = calls
    /\ active' = {}

\* the agents that were called, in call order
AgentsCalled == [i \in DOMAIN calls |-> calls[i].agent]

\* C24: when the audit gives a result whose status is not 'SUCCESS' (another
\* status, an exception, no result), Orchestrator.run returns at once the
\* result with status ERROR and message 'Audit failed', and only the auditor
\* was ever called; when a fix gives such a result, run returns at once the
\* result with status ERROR and message 'Fix failed', and the judge is not
\* called after that fix; nobody is called once run has returned.
C24_FailedPhaseReturnsErrorAtOnce ==
    /\ [][AuditFails => ReturnsError("Audit failed")]_vars
    /\ [][FixFails => ReturnsError("Fix failed")]_vars
    /\ [][(driver = "orchestrator" /\ Done) => calls' = calls]_vars
    /\ []((driver = "orchestrator" /\ audit_result.status \notin {Absent, "SUCCESS"})
            => (Done /\ result.message = "Audit failed"
                    /\ AgentsCalled = <<"auditor">>))
    /\ []((driver = "orchestrator" /\ Done /\ result.message = "Fix failed")
            => (fix_result.status # "SUCCESS"
                    /\ calls[Len(calls)].agent = "fixer"))

\* run has returned 'Fix failed' for a fixer that returned nothing in the
\* second iteration, after a first round of fix and judge
C24_Witness ==
    /\ driver = "orchestrator"
    /\ Done
    /\ result.status = "ERROR"
    /\ result.message = "Fix failed"
    /\ fix_result.kind = "error"
    /\ raised = Absent
    /\ AgentsCalled = <<"auditor", "fixer", "judge", "fixer">>

(* ---------------------------------------------------------------------- *)
(* Retries of the corrector                                                *)
(* ---------------------------------------------------------------------- *)

\* execute_with_retry has returned or raised
RetryOver == r_pc \in {"returned", "raised"}

\* the outcome is an exception that can_retry does not take for recoverable
NonRecoverable(o) == o.kind = "exception" /\ ~CanRetry(o.text)

\* the outcome is a result with status 'correction_complete'
Complete(o) == o.kind = "result" /\ o.text = <<"correction_complete">>

\* C25: execute_with_retry calls execute at most max_retries times and
\* ends, either returning a result of execute or raising; a result with
\* status 'correction_complete' is returned as soon as execute gives one;
\* after an exception that can_retry does not take for recoverable no
\* further call is made and it is raised; an exception of the last
\* attempt is raised again.
C25_RetryCallsBoundedAndEnds ==
    /\ [](r_pc # "idle" =>
            /\ Len(r_outcomes) <= max_retries
            /\ \A i \in DOMAIN r_outcomes :
                (Complete(r_outcomes[i]) \/ NonRecoverable(r_outcomes[i])) =>
                    /\ i = Len(r_outcomes)
                    /\ RetryOver
                    /\ r_end = r_outcomes[i]
                    /\ r_pc = IF Complete(r_outcomes[i]) THEN "returned" ELSE "raised"
            /\ (Len(r_outcomes) = max_retries /\ max_retries > 0
                    /\ r_outcomes[max_retries].kind = "exception") =>
                        (r_pc = "raised" /\ r_end = r_outcomes[max_retries])
            /\ r_pc = "returned" =>
                (r_end.kind = "result" /\ r_end = r_outcomes[Len(r_outcomes)])
            /\ r_pc = "raised" => r_end.kind = "exception")
    /\ (r_pc # "idle" ~> RetryOver)

\* the third of three attempts raised a recoverable exception, after a
\* retryable status and a recoverable exception, and it was raised again
C25_Witness ==
    /\ max_retries = MAX_RETRIES
    /\ r_pc = "raised"
    /\ Len(r_outcomes) = 3
    /\ r_outcomes[1] = [kind |-> "result", text |-> <<"Partial_Fix">>]
    /\ r_outcomes[2] = [kind |-> "exception", text |-> <<"retrying", "later">>]
    /\ r_outcomes[3] = [kind |-> "exception", text |-> <<"Timeout", "expired">>]
    /\ r_end = r_outcomes[3]

(* ---------------------------------------------------------------------- *)
(* What SUCCESS says about the last test outcome                           *)
(* ---------------------------------------------------------------------- *)

\* C26: when a run has ended in SUCCESS (Orchestrator.run returns state
\* SUCCESS, main() exits with 0 after MISSION COMPLETE), the JUDGE result
\* of its last iteration reports failed = 0 and errors = 0.
C26_SuccessOnlyWithoutFailures ==
    (Done /\ TerminalState = "SUCCESS") =>
        /\ judge_round = iteration_count
        /\ judge_result.failed = 0
        /\ judge_result.errors = 0

(* ---------------------------------------------------------------------- *)
(* The state of the graph when run returns                                 *)
(* ---------------------------------------------------------------------- *)

\* C27: whenever Orchestrator.run has returned, the 'state' of the result
\* is graph.current_state, and it is SUCCESS, MAX_ITERATIONS or ERROR.
C27_ResultStateIsGraphState ==
    (driver = "orchestrator" /\ Done) =>
        /\ result.state = current_state
        /\ current_state \in TerminalStates

(* ---------------------------------------------------------------------- *)
(* The run against the graph                                               *)
(* ---------------------------------------------------------------------- *)

\* what judge_result.get('approved', False) gives
ApprovedOrDefault(jr) == IF jr.approved = Absent THEN "False" ELSE jr.approved

\* the judge result on which the step out of JUDGE is decided
DecidingResult == IF pc = "judge" THEN judge_result' ELSE judge_result

\* C28: every change of graph.current_state that Orchestrator.run makes
\* leads to the state that get_next_state returns for the state before,
\* the value of 'approved' in the deciding judge result (False when it is
\* missing) and the iteration_count of the moment.
C28_RunFollowsGetNextState ==
    [][(driver = "orchestrator" /\ current_state' # current_state) =>
        current_state' =
            GetNextState(current_state, ApprovedOrDefault(DecidingResult),
                         iteration_count)]_vars

(* ---------------------------------------------------------------------- *)
(* The history that each call of run returns                               *)
(* ---------------------------------------------------------------------- *)

\* the records of the returned history with this state
RecordsOf(state) == {i \in DOMAIN rr_history : rr_history[i].state = state}

\* C29: after every call of run, the first or a later one on the same
\* Orchestrator, the history it returns begins with an AUDIT record and
\* holds no other AUDIT record, every record in it was made by a phase call
\* of this run, and the iterations it reports is the number of FIX records.
C29_HistoryOfThisRunOnly ==
    rr_runs >= 1 =>
        /\ rr_history # <<>>
        /\ RecordsOf("AUDIT") = {1}
        /\ \A i \in DOMAIN rr_history : rr_history[i].result > rr_before
        /\ rr_result.iterations = Cardinality(RecordsOf("FIX"))

(* ---------------------------------------------------------------------- *)
(* What the counters of the corrector say                                  *)
(* ---------------------------------------------------------------------- *)

\* C30: in the summary that the corrector returns, total_corrections is
\* greater than 0 only if the call wrote at least one file, and it is 0
\* when no file was written.
C30_CorrectionsCountedAreWritten ==
    c_pc = "done" =>
        /\ c_summary.total_corrections > 0 => c_written # {}
        /\ c_written = {} => c_summary.total_corrections = 0

====
